---- MODULE Spec2Model ----
(***************************************************************************)
(* TranscriptionResultDialog (src/ui/transcription_result_dialog.py):      *)
(* a notification window that shows a preview of a transcription, closes   *)
(* itself when its auto-hide timer expires, and becomes persistent (text   *)
(* copied to the clipboard, close button added) on a left click.           *)
(*                                                                         *)
(* All callbacks run to completion on the single UI thread, so each        *)
(* handler is one atomic action.  Text is a sequence of one-character      *)
(* strings.                                                                *)
(***************************************************************************)
EXTENDS Integers, Sequences, FiniteSets, TLC

(* ------------------------------ bounds --------------------------------- *)

\* show_transcription_result is called at most MaxShows times in a behaviour.
MaxShows == 2

\* An input carries at most MaxPad whitespace characters around its body.
MaxPad == 2

(* ------------------------- program constants --------------------------- *)

\* len(preview_text) > 80
PreviewMax == 80

\* preview_text[:77]
PreviewKeep == 77

\* margin = 20
Margin == 20

\* "- 60  # Extra margin for taskbar"
TaskbarMargin == 60

\* super().__init__("Transcription", 320, 120)
InitialWidth == 320

InitialHeight == 120

\* self.setFixedSize(320, 150)
PersistentWidth == 320

PersistentHeight == 150

\* QLabel("Click to copy and keep open")
PromptText == "Click to copy and keep open"

\* setText("✓ Copied to clipboard") (the check mark is written "v" here)
CopiedText == "v Copied to clipboard"

Ellipsis == <<".", ".", ".">>

\* Qt.LeftButton and the other buttons a QMouseEvent can carry
Buttons == {"LeftButton", "RightButton", "MiddleButton"}

(* ------------------------------ inputs --------------------------------- *)

WsChars == <<" ", "\t", "\n">>

\* The characters str.strip() removes (those of them the inputs use).
Whitespace == {WsChars[i] : i \in 1..Len(WsChars)}

\* k whitespace characters, of varying kinds.
Pad(k) == [i \in 1..k |-> WsChars[((i - 1) % Len(WsChars)) + 1]]

\* n characters that begin and end with a letter, with blanks inside and a
\* content that varies with the position.
Body(n) ==
    [i \in 1..n |-> IF i = 1 \/ i = n THEN "a"
                    ELSE IF i % 7 = 0 THEN " "
                    ELSE IF i % 2 = 0 THEN "b" ELSE "c"]

BodyLens == {0, PreviewMax - 1, PreviewMax, PreviewMax + 1}

\* The texts the application passes: empty, blank, short, exactly at the
\* limit, over the limit, over the limit only through surrounding whitespace.
Inputs ==
    {Pad(p[1]) \o Body(n) \o Pad(p[2]) :
        p \in {q \in (0..MaxPad) \X (0..MaxPad) : q[1] + q[2] <= MaxPad},
        n \in BodyLens}

\* QApplication.primaryScreen().geometry(): <<width, height>>
Screens == {<<1920, 1080>>, <<1366, 768>>}

\* What the system clipboard holds before the dialog writes it.
ClipboardInitial == <<"#">>

\* Where the user may drag the window to.
DragTargets == {<<40, 40>>}

(* ------------------------------- state --------------------------------- *)

VARIABLES
    is_persistent,       \* self.is_persistent
    timer_active,        \* self.auto_hide_timer.isActive()
    visible,             \* self.isVisible()
    subtitle,            \* self.subtitle_label.text()
    transcription_text,  \* self.transcription_text
    preview_text,        \* self.preview_label.text()
    clipboard,           \* QApplication.clipboard().text()
    close_button_added,  \* hasattr(self, 'close_button_added')
    close_buttons,       \* number of close buttons in the content layout
    width, height,       \* self.width(), self.height()
    x, y,                \* self.pos()
    screen,              \* primary screen geometry
    event,               \* the callback that ran last
    delegated,           \* the last callback called the base class's handler
    shows,               \* number of show_transcription_result calls so far
    clipboard_writes,    \* number of clipboard.setText calls so far
    last_text,           \* argument of the last show_transcription_result
    transitions,         \* number of changes of is_persistent from false to true
    dragging             \* the base class is dragging the window (left button held)

dialog == <<is_persistent, timer_active, visible, subtitle, transcription_text,
            preview_text, clipboard, close_button_added, close_buttons,
            width, height, x, y>>

vars == <<is_persistent, timer_active, visible, subtitle, transcription_text,
          preview_text, clipboard, close_button_added, close_buttons,
          width, height, x, y, screen, event, delegated, shows,
          clipboard_writes, last_text, transitions, dragging>>

(* --------------------------- pure functions ---------------------------- *)

RECURSIVE lstrip(_)
\* str.lstrip(): drop whitespace from the left end.
lstrip(s) ==
    IF s # <<>> /\ Head(s) \in Whitespace THEN lstrip(Tail(s)) ELSE s

RECURSIVE rstrip(_)
\* str.rstrip(): drop whitespace from the right end.
rstrip(s) ==
    IF s # <<>> /\ s[Len(s)] \in Whitespace
    THEN rstrip(SubSeq(s, 1, Len(s) - 1))
    ELSE s

\* text.strip()
strip(s) == rstrip(lstrip(s))

\* s[:n] for n >= 0
slice_to(s, n) == SubSeq(s, 1, IF n < Len(s) THEN n ELSE Len(s))

\* make_preview with the limit tested by >= instead of >.
make_preview_ge(text) ==
    LET stripped == strip(text)
    IN  IF Len(stripped) >= PreviewMax
        THEN slice_to(stripped, PreviewKeep) \o Ellipsis
        ELSE stripped

\* make_preview that cuts at the limit itself instead of three short of it.
make_preview_keep_max(text) ==
    LET stripped == strip(text)
    IN  IF Len(stripped) > PreviewMax
        THEN slice_to(stripped, PreviewMax) \o Ellipsis
        ELSE stripped

\* make_preview that forgets to strip the text.
make_preview_unstripped(text) ==
    IF Len(text) > PreviewMax
    THEN slice_to(text, PreviewKeep) \o Ellipsis
    ELSE text

\* The preview show_transcription_result puts in preview_label.
make_preview(text) ==
    LET stripped == strip(text)
    IN  IF Len(stripped) > PreviewMax
        THEN slice_to(stripped, PreviewKeep) \o Ellipsis
        ELSE stripped

\* The window position position_bottom_right computes.
bottom_right(scr, w, h) ==
    <<scr[1] - w - Margin, scr[2] - h - Margin - TaskbarMargin>>

\* Where the base class may have put the window before it is first shown.
InitialPositions(scr) ==
    {<<0, 0>>, <<(scr[1] - InitialWidth) \div 2, (scr[2] - InitialHeight) \div 2>>}

(* ----------------------------- the methods ----------------------------- *)
(* Each method is the state change of its body; the variables it leaves    *)
(* alone are stated by the handler that calls it.                          *)

\* position_bottom_right(): reads the size the window has when it is called.
position_bottom_right ==
    /\ x' = bottom_right(screen, width', height')[1]
    /\ y' = bottom_right(screen, width', height')[2]

\* show_transcription_result that forgets to reset the persistent state.
show_transcription_result_no_reset(text) ==
    /\ transcription_text' = text
    /\ preview_text' = make_preview(text)
    /\ UNCHANGED <<is_persistent, subtitle>>
    /\ UNCHANGED <<width, height>>
    /\ position_bottom_right
    /\ visible' = TRUE
    /\ timer_active' = TRUE
    /\ UNCHANGED <<clipboard, close_button_added, close_buttons>>

\* show_transcription_result that forgets to start the auto-hide timer.
show_transcription_result_no_timer(text) ==
    /\ transcription_text' = text
    /\ preview_text' = make_preview(text)
    /\ is_persistent' = FALSE
    /\ subtitle' = PromptText
    /\ UNCHANGED <<width, height>>
    /\ position_bottom_right
    /\ visible' = TRUE
    /\ UNCHANGED timer_active
    /\ UNCHANGED <<clipboard, close_button_added, close_buttons>>

\* show_transcription_result that resets the flag but not the subtitle.
show_transcription_result_stale_subtitle(text) ==
    /\ transcription_text' = text
    /\ preview_text' = make_preview(text)
    /\ is_persistent' = FALSE
    /\ UNCHANGED subtitle
    /\ UNCHANGED <<width, height>>
    /\ position_bottom_right
    /\ visible' = TRUE
    /\ timer_active' = TRUE
    /\ UNCHANGED <<clipboard, close_button_added, close_buttons>>

\* show_transcription_result(text)
show_transcription_result(text) ==
    /\ transcription_text' = text
    /\ preview_text' = make_preview(text)
    /\ is_persistent' = FALSE
    /\ subtitle' = PromptText
    /\ UNCHANGED <<width, height>>
    /\ position_bottom_right
    /\ visible' = TRUE
    /\ timer_active' = TRUE
    /\ UNCHANGED <<clipboard, close_button_added, close_buttons>>

\* add_close_button that resizes the window and does not reposition it.
add_close_button_no_reposition ==
    /\ close_buttons' = close_buttons + 1
    /\ width' = PersistentWidth
    /\ height' = PersistentHeight
    /\ UNCHANGED <<x, y>>

\* add_close_button(): one more button in the layout, resize, reposition.
add_close_button ==
    /\ close_buttons' = close_buttons + 1
    /\ width' = PersistentWidth
    /\ height' = PersistentHeight
    /\ position_bottom_right

\* make_persistent that forgets to stop the auto-hide timer.
make_persistent_timer_running ==
    /\ is_persistent' = TRUE
    /\ UNCHANGED timer_active
    /\ subtitle' = CopiedText
    /\ IF ~close_button_added
       THEN /\ add_close_button
            /\ close_button_added' = TRUE
       ELSE UNCHANGED <<close_button_added, close_buttons, width, height, x, y>>

\* make_persistent that adds a close button each time, without the marker test.
make_persistent_always_adds ==
    /\ is_persistent' = TRUE
    /\ timer_active' = FALSE
    /\ subtitle' = CopiedText
    /\ add_close_button
    /\ close_button_added' = TRUE

\* make_persistent()
make_persistent ==
    /\ is_persistent' = TRUE
    /\ timer_active' = FALSE
    /\ subtitle' = CopiedText
    /\ IF ~close_button_added
       THEN /\ add_close_button
            /\ close_button_added' = TRUE
       ELSE UNCHANGED <<close_button_added, close_buttons, width, height, x, y>>

\* copy_to_clipboard that copies what the preview label shows.
copy_to_clipboard_preview ==
    clipboard' = preview_text

\* copy_to_clipboard()
copy_to_clipboard ==
    clipboard' = transcription_text

\* BaseWindow.mousePressEvent: a left press starts a window drag; the
\* notification's own state is not touched.
base_mousePressEvent(button) ==
    /\ UNCHANGED dialog
    /\ dragging' = IF button = "LeftButton" THEN TRUE ELSE dragging

\* BaseWindow.mouseMoveEvent: during a drag the window follows the pointer.
\* TranscriptionResultDialog does not override it.
base_mouseMoveEvent(pos) ==
    /\ x' = pos[1]
    /\ y' = pos[2]
    /\ UNCHANGED <<is_persistent, timer_active, visible, subtitle,
                   transcription_text, preview_text, clipboard,
                   close_button_added, close_buttons, width, height>>

\* BaseWindow.mouseReleaseEvent: the drag ends.
base_mouseReleaseEvent ==
    /\ dragging' = FALSE
    /\ UNCHANGED dialog

\* mousePressEvent that does not test is_persistent.
mousePressEvent_unguarded(button) ==
    IF button = "LeftButton"
    THEN /\ make_persistent
         /\ copy_to_clipboard
         /\ clipboard_writes' = clipboard_writes + 1
         /\ delegated' = FALSE
         /\ UNCHANGED <<visible, transcription_text, preview_text, dragging>>
    ELSE /\ base_mousePressEvent(button)
         /\ delegated' = TRUE
         /\ UNCHANGED clipboard_writes

\* mousePressEvent that copies on every left press, persistent or not.
mousePressEvent_copy_always(button) ==
    IF button = "LeftButton"
    THEN /\ IF ~is_persistent
            THEN make_persistent
            ELSE UNCHANGED <<is_persistent, timer_active, subtitle,
                             close_button_added, close_buttons,
                             width, height, x, y>>
         /\ copy_to_clipboard
         /\ clipboard_writes' = clipboard_writes + 1
         /\ delegated' = FALSE
         /\ UNCHANGED <<visible, transcription_text, preview_text, dragging>>
    ELSE /\ base_mousePressEvent(button)
         /\ delegated' = TRUE
         /\ UNCHANGED clipboard_writes

\* mousePressEvent that does not test which button was pressed.
mousePressEvent_any_button(button) ==
    IF ~is_persistent
    THEN /\ make_persistent
         /\ copy_to_clipboard
         /\ clipboard_writes' = clipboard_writes + 1
         /\ delegated' = FALSE
         /\ UNCHANGED <<visible, transcription_text, preview_text, dragging>>
    ELSE /\ base_mousePressEvent(button)
         /\ delegated' = TRUE
         /\ UNCHANGED clipboard_writes

\* mousePressEvent(event)
mousePressEvent(button) ==
    IF button = "LeftButton" /\ ~is_persistent
    THEN /\ make_persistent
         /\ copy_to_clipboard
         /\ clipboard_writes' = clipboard_writes + 1
         /\ delegated' = FALSE
         /\ UNCHANGED <<visible, transcription_text, preview_text, dragging>>
    ELSE /\ base_mousePressEvent(button)
         /\ delegated' = TRUE
         /\ UNCHANGED clipboard_writes

\* BaseWindow.closeEvent: the default close behaviour, the window is hidden.
base_closeEvent ==
    visible' = FALSE

\* closeEvent(event)
closeEvent ==
    /\ timer_active' = FALSE
    /\ base_closeEvent

\* close that also resets the persistent state.
close_resets_state ==
    /\ closeEvent
    /\ is_persistent' = FALSE
    /\ UNCHANGED <<subtitle, transcription_text, preview_text,
                   clipboard, close_button_added, close_buttons,
                   width, height, x, y>>

\* self.close(): delivers the close event; nothing else of the dialog changes.
close ==
    /\ closeEvent
    /\ UNCHANGED <<is_persistent, subtitle, transcription_text, preview_text,
                   clipboard, close_button_added, close_buttons,
                   width, height, x, y>>

\* auto_hide with its test inverted.
auto_hide_inverted ==
    IF is_persistent THEN close ELSE UNCHANGED dialog

\* auto_hide without its test.
auto_hide_unguarded ==
    close

\* auto_hide(): the slot of auto_hide_timer.timeout
auto_hide ==
    IF ~is_persistent THEN close ELSE UNCHANGED dialog

(* ------------------------------ behaviour ------------------------------ *)

\* Bookkeeping of every step: a change of is_persistent from false to true is
\* counted as one transition to persistent.
CountTransition ==
    transitions' = IF ~is_persistent /\ is_persistent'
                   THEN transitions + 1 ELSE transitions

\* __init__ and initResultUI: the dialog exists and has not been shown.
Init ==
    /\ is_persistent = FALSE
    /\ timer_active = FALSE
    /\ visible = FALSE
    /\ subtitle = PromptText
    /\ transcription_text = <<>>
    /\ preview_text = <<>>
    /\ clipboard = ClipboardInitial
    /\ close_button_added = FALSE
    /\ close_buttons = 0
    /\ width = InitialWidth
    /\ height = InitialHeight
    /\ screen \in Screens
    /\ \E p \in InitialPositions(screen) : x = p[1] /\ y = p[2]
    /\ event = "init"
    /\ delegated = FALSE
    /\ shows = 0
    /\ clipboard_writes = 0
    /\ last_text = <<>>
    /\ transitions = 0
    /\ dragging = FALSE

\* The application shows a new transcription result.
ShowTranscriptionResult ==
    \E text \in Inputs :
        /\ shows < MaxShows
        /\ show_transcription_result(text)
        /\ shows' = shows + 1
        /\ last_text' = text
        /\ event' = "show"
        /\ delegated' = FALSE
        /\ UNCHANGED <<screen, clipboard_writes, dragging>>
        /\ CountTransition

\* The user presses a mouse button on the window (outside the close button);
\* not the left button while it is held down in a drag.
MousePress ==
    \E button \in Buttons :
        /\ visible
        /\ ~(button = "LeftButton" /\ dragging)
        /\ mousePressEvent(button)
        /\ event' = IF button = "LeftButton" THEN "press_left" ELSE "press_other"
        /\ UNCHANGED <<screen, shows, last_text>>
        /\ CountTransition

\* The auto-hide timer expires.
TimerExpiry ==
    /\ timer_active
    /\ auto_hide
    /\ event' = "timeout"
    /\ delegated' = FALSE
    /\ UNCHANGED <<screen, shows, clipboard_writes, last_text, dragging>>
    /\ CountTransition

\* The user clicks the close button: clicked is connected to self.close.
CloseButtonClicked ==
    /\ visible
    /\ close_buttons > 0
    /\ close
    /\ event' = "close_button"
    /\ delegated' = FALSE
    /\ UNCHANGED <<screen, shows, clipboard_writes, last_text, dragging>>
    /\ CountTransition

\* The window is closed from outside (window manager, application).
ExternalClose ==
    /\ visible
    /\ close
    /\ event' = "external_close"
    /\ delegated' = FALSE
    /\ UNCHANGED <<screen, shows, clipboard_writes, last_text, dragging>>
    /\ CountTransition

\* The user moves the pointer while the base class drags the window.
MouseMove ==
    \E pos \in DragTargets :
        /\ visible
        /\ dragging
        /\ base_mouseMoveEvent(pos)
        /\ event' = "move"
        /\ delegated' = FALSE
        /\ UNCHANGED <<screen, shows, clipboard_writes, last_text, dragging>>
        /\ CountTransition

\* The user releases the button that started the drag.
MouseRelease ==
    /\ dragging
    /\ base_mouseReleaseEvent
    /\ event' = "release"
    /\ delegated' = FALSE
    /\ UNCHANGED <<screen, shows, clipboard_writes, last_text>>
    /\ CountTransition

Next ==
    \/ ShowTranscriptionResult
    \/ MousePress
    \/ TimerExpiry
    \/ CloseButtonClicked
    \/ ExternalClose
    \/ MouseMove
    \/ MouseRelease

Spec == Init /\ [][Next]_vars

\* auto_hide() run without a timer expiry: the slot is public, so any code may
\* call it in any state.
StrayAutoHide ==
    /\ auto_hide
    /\ event' = "auto_hide_call"
    /\ delegated' = FALSE
    /\ UNCHANGED <<screen, shows, clipboard_writes, last_text, dragging>>
    /\ CountTransition

NextStray ==
    \/ Next
    \/ StrayAutoHide

\* The dialog with auto_hide also reachable outside a timer expiry.
SpecStray == Init /\ [][NextStray]_vars

\* The dialog with an event loop that delivers the timeout of an armed timer:
\* a timer that stays armed eventually expires.
FairSpec == Spec /\ WF_vars(TimerExpiry)

(* ------------------------- notions of the spec ------------------------- *)

\* Number of whitespace characters s begins with.
LeadCount(s) ==
    CHOOSE k \in 0..Len(s) :
        /\ \A m \in 1..k : s[m] \in Whitespace
        /\ k = Len(s) \/ s[k + 1] \notin Whitespace

\* Number of whitespace characters s ends with.
TrailCount(s) ==
    CHOOSE k \in 0..Len(s) :
        /\ \A m \in 1..k : s[Len(s) + 1 - m] \in Whitespace
        /\ k = Len(s) \/ s[Len(s) - k] \notin Whitespace

\* s with its leading and trailing whitespace removed.
Trimmed(s) ==
    IF LeadCount(s) = Len(s) THEN <<>>
    ELSE SubSeq(s, LeadCount(s) + 1, Len(s) - TrailCount(s))

\* p ends in the ellipsis.
EndsInEllipsis(p) ==
    /\ Len(p) >= Len(Ellipsis)
    /\ SubSeq(p, Len(p) - Len(Ellipsis) + 1, Len(p)) = Ellipsis

\* p is some prefix of s followed by the ellipsis.
PrefixPlusEllipsis(p, s) ==
    \E k \in 0..Len(s) : p = SubSeq(s, 1, k) \o Ellipsis

AutoHideRan == event' \in {"timeout", "auto_hide_call"}

\* This step takes the notification from TRANSIENT to PERSISTENT.
BecomesPersistent == ~is_persistent /\ is_persistent'

\* The window's right edge is 20 px from the screen's right edge and its
\* bottom edge 80 px from the screen's bottom edge.
AtBottomRight ==
    /\ x + width + 20 = screen[1]
    /\ y + height + 80 = screen[2]

(* ------------------------------- claims -------------------------------- *)

\* C1: a left-button press on the visible notification while is_persistent is
\* false sets is_persistent, stops the timer and puts in the clipboard exactly
\* the text passed to the most recent show_transcription_result call.
C1_LeftPressPersistsAndCopies ==
    [][(event' = "press_left" /\ visible /\ ~is_persistent) =>
            /\ is_persistent'
            /\ ~timer_active'
            /\ clipboard' = last_text
            /\ clipboard_writes' = clipboard_writes + 1]_vars

\* C1 happens: a second result, longer than its preview and padded, was shown
\* and copied by a left press after an earlier result had been copied.
C1_Witness ==
    /\ event = "press_left"
    /\ ~delegated
    /\ is_persistent
    /\ clipboard_writes = 2
    /\ clipboard = last_text
    /\ clipboard # preview_text
    /\ clipboard # Trimmed(last_text)
    /\ Len(last_text) > PreviewMax

\* C2: after show_transcription_result returns, whatever the state before,
\* is_persistent is false, the window is visible, the subtitle is the initial
\* prompt and the timer is armed.
C2_ShowResets ==
    event = "show" =>
        /\ ~is_persistent
        /\ visible
        /\ subtitle = PromptText
        /\ timer_active

\* C2 happens: a result was shown over a notification made persistent before.
C2_Witness ==
    /\ event = "show"
    /\ shows = 2
    /\ clipboard_writes = 1
    /\ close_button_added
    /\ ~is_persistent

\* C3: when the timer armed by show_transcription_result expires (no left
\* press having stopped it), the window closes and is_persistent stays false.
C3_TimeoutCloses ==
    [][(event' = "timeout" /\ timer_active) =>
            /\ ~is_persistent
            /\ ~is_persistent'
            /\ visible
            /\ ~visible']_vars

\* C3 happens: a result was shown, never clicked, and the timer expired.
C3_Witness ==
    /\ event = "timeout"
    /\ shows = 1
    /\ clipboard_writes = 0
    /\ ~visible
    /\ ~is_persistent

\* C4: a left-button press while is_persistent is true changes nothing of the
\* notification (no clipboard write, no further close button, is_persistent
\* true, timer disarmed, subtitle as it was) and is passed to the base class.
C4_LeftPressWhilePersistent ==
    [][(event' = "press_left" /\ visible /\ is_persistent) =>
            /\ UNCHANGED dialog
            /\ clipboard_writes' = clipboard_writes
            /\ is_persistent'
            /\ ~timer_active'
            /\ delegated']_vars

\* C4 happens: a left press was handled on a persistent notification.
C4_Witness ==
    /\ event = "press_left"
    /\ delegated
    /\ is_persistent
    /\ visible
    /\ clipboard_writes = 1

\* C5: for an input of at most 80 characters the preview is the input with
\* its leading and trailing whitespace removed, exactly.
C5_ShortPreviewIsTrimmedInput ==
    (shows > 0 /\ Len(last_text) <= PreviewMax) =>
        preview_text = Trimmed(last_text)

\* C5 happens: an input of exactly 80 characters, some of them surrounding
\* whitespace, is on show.
C5_Witness ==
    /\ event = "show"
    /\ Len(last_text) = PreviewMax
    /\ preview_text # last_text
    /\ preview_text # <<>>

\* C6 as stated: for an input of more than 80 characters, also one that is
\* over 80 only through surrounding whitespace, the preview has length 80,
\* ends in "..." and begins with the first 77 characters of the trimmed input.
C6_Original ==
    (shows > 0 /\ Len(last_text) > PreviewMax) =>
        /\ Len(preview_text) = PreviewMax
        /\ EndsInEllipsis(preview_text)
        /\ SubSeq(preview_text, 1, PreviewKeep)
             = SubSeq(Trimmed(last_text), 1, PreviewKeep)

\* C6 amended: for an input whose length after trimming is more than 80, the
\* preview has length 80, ends in "..." and begins with the first 77
\* characters of the trimmed input.
C6_LongTrimmedPreview ==
    (shows > 0 /\ Len(Trimmed(last_text)) > PreviewMax) =>
        /\ Len(preview_text) = PreviewMax
        /\ EndsInEllipsis(preview_text)
        /\ SubSeq(preview_text, 1, PreviewKeep)
             = SubSeq(Trimmed(last_text), 1, PreviewKeep)

\* C6 happens: a padded input whose trimmed form is over 80 is on show.
C6_Witness ==
    /\ event = "show"
    /\ Len(Trimmed(last_text)) > PreviewMax
    /\ Trimmed(last_text) # last_text

\* C7 as stated: in every state, when the stored untrimmed text is over 80
\* characters the preview is a prefix of it followed by the ellipsis, and
\* otherwise the preview is the stored text trimmed.
C7_Original ==
    IF Len(transcription_text) > PreviewMax
    THEN PrefixPlusEllipsis(preview_text, transcription_text)
    ELSE preview_text = Trimmed(transcription_text)

\* C7 amended: in every state, when the stored text is over 80 characters
\* after trimming, the preview is a prefix of the trimmed text followed by the
\* ellipsis, and otherwise the preview is the stored text trimmed.
C7_PreviewInvariant ==
    IF Len(Trimmed(transcription_text)) > PreviewMax
    THEN PrefixPlusEllipsis(preview_text, Trimmed(transcription_text))
    ELSE preview_text = Trimmed(transcription_text)

\* C7 happens: the stored text is over 80 only through leading whitespace,
\* and the notification has since been made persistent.
C7_Witness ==
    /\ is_persistent
    /\ Len(transcription_text) > PreviewMax
    /\ Len(Trimmed(transcription_text)) <= PreviewMax
    /\ LeadCount(transcription_text) > 0
    /\ preview_text = Trimmed(transcription_text)

\* C8: auto_hide closes the window only when is_persistent is false and does
\* nothing when it is true; a persistent visible notification stays so until
\* the close button is clicked, it is closed from outside, or a new result is
\* shown.
C8_AutoHideSparesPersistent ==
    [][/\ (AutoHideRan /\ is_persistent) => UNCHANGED dialog
       /\ (AutoHideRan /\ visible /\ ~visible') => ~is_persistent
       /\ (is_persistent /\ visible /\ ~(is_persistent' /\ visible')) =>
              event' \in {"close_button", "external_close", "show"}]_vars

\* C8 happens: auto_hide ran on a persistent notification, which is still
\* visible.
C8_Witness ==
    /\ event = "auto_hide_call"
    /\ is_persistent
    /\ visible

\* C9: whenever a callback has returned, the timer is armed only if the window
\* is visible and is_persistent is false (so auto_hide, which the timer alone
\* starts, never runs on a closed or persistent notification).
C9_TimerArmedOnlyTransientVisible ==
    timer_active => (visible /\ ~is_persistent)

\* C9 happens: the timer was armed and a left press has disarmed it.
C9_Witness ==
    /\ event = "press_left"
    /\ ~delegated
    /\ is_persistent
    /\ visible
    /\ ~timer_active

\* C10 as stated: the window goes from visible to closed only by a timer
\* expiry while transient, a close-button click while persistent, or a close
\* from outside.
C10_Original ==
    [][(visible /\ ~visible') =>
            \/ event' = "timeout" /\ ~is_persistent
            \/ event' = "close_button" /\ is_persistent
            \/ event' = "external_close"]_vars

\* C11: the notification starts TRANSIENT, and once is_persistent is true only
\* a show_transcription_result call sets it back to false: no mouse press,
\* timer expiry or close does.
C11_PersistentUntilShow ==
    /\ ~is_persistent
    /\ [][(is_persistent /\ ~is_persistent') => event' = "show"]_vars

\* C11 happens: a persistent notification was closed and is still persistent.
C11_Witness ==
    /\ event \in {"close_button", "external_close"}
    /\ ~visible
    /\ is_persistent

\* C12: the close control is appended exactly once, on the first transition
\* to persistent: there are 0 close controls before it and 1 in every state
\* after it, however many resets and transitions follow.
C12_CloseControlOnce ==
    close_buttons = IF transitions = 0 THEN 0 ELSE 1

\* C12 happens: the notification became persistent a second time.
C12_Witness ==
    /\ transitions = 2
    /\ is_persistent
    /\ close_buttons = 1

\* C13: if an armed timer eventually expires, every show_transcription_result
\* call is eventually followed by the notification being persistent or
\* closed, also a call made while the notification was persistent.
C13_ShowLeadsToPersistentOrClosed ==
    [](event = "show" => <>(is_persistent \/ ~visible))

\* C13 happens: a result shown over a persistent notification was not clicked
\* and the timer closed it.
C13_Witness ==
    /\ event = "timeout"
    /\ ~visible
    /\ ~is_persistent
    /\ shows = 2
    /\ transitions = 1

C15_SubtitleTracksPersistence ==
    /\ (subtitle = CopiedText) <=> is_persistent
    /\ (subtitle = PromptText) <=> ~is_persistent

\* C15 happens: a persistent notification was reset by a new result.
C15_Witness ==
    /\ event = "show"
    /\ transitions = 1
    /\ ~is_persistent
    /\ subtitle = PromptText

\* C16: the clipboard is written exactly by the transitions from TRANSIENT to
\* PERSISTENT: each of them is one write, every other step leaves the
\* clipboard alone, so the writes number as many as the transitions.
C16_ClipboardWrittenByTransitionOnly ==
    [][/\ BecomesPersistent =>
              (clipboard_writes' = clipboard_writes + 1 /\ clipboard' = last_text)
       /\ ~BecomesPersistent => UNCHANGED <<clipboard, clipboard_writes>>
       /\ clipboard_writes' = transitions']_vars

\* C16 happens: after a transition a different result was shown, the
\* clipboard still holding the text copied before.
C16_Witness ==
    /\ event = "show"
    /\ clipboard_writes = 1
    /\ transitions = 1
    /\ clipboard # ClipboardInitial
    /\ clipboard # last_text

\* C17: a press of a button other than the left one while is_persistent is
\* false makes no transition: is_persistent stays false, the timer armed,
\* clipboard, subtitle and close controls as they were; the event goes to the
\* base class only.
C17_OtherButtonWhileTransient ==
    [][(event' = "press_other" /\ visible /\ ~is_persistent) =>
            /\ UNCHANGED dialog
            /\ ~is_persistent'
            /\ timer_active'
            /\ clipboard_writes' = clipboard_writes
            /\ transitions' = transitions
            /\ delegated']_vars

\* C17 happens: a right or middle press was handled on a transient
\* notification, which is still transient with its timer armed.
C17_Witness ==
    /\ event = "press_other"
    /\ delegated
    /\ visible
    /\ ~is_persistent
    /\ timer_active

====
